---- MODULE Spec2Model ----
(***************************************************************************)
(* A model of yinfo's Innertube instance (src/src/innertube.rs): the       *)
(* player-url handle behind a tokio Mutex, the DashMap cipher cache, and   *)
(* the info / decipher_format calls of several cooperative tasks.          *)
(*                                                                         *)
(* Strings are sequences of tokens (a token is a character or a literal    *)
(* the code searches for), so that the scans of utils::between, of         *)
(* split(',') and of the regular expressions are computed, not assumed.    *)
(***************************************************************************)
EXTENDS Integers, Sequences, FiniteSets, TLC

VARIABLES
    configs,        \* Innertube.configs: the ordered client profiles
    retry_limit,    \* Innertube.retry_limit (i8)
    player_url,     \* the PlayerUrl behind Innertube.player_url: [url, expire_at]
    lock,           \* owner of the tokio Mutex around player_url, 0 when free
    cipher_cache,   \* Innertube.cipher_cache: key -> None or Some(Cipher)
    loads,          \* history: per key, the scripts get_cipher_pair fetched and parsed
    shardOf,        \* the shard DashMap's hasher gives each key
    shardW,         \* per shard: the task holding its write lock, 0 when none
    shardR,         \* per shard: the tasks holding its read lock (a Ref)
    threads,        \* worker threads of the executor polling the tasks
    concurrent,     \* whether the caller spawns its calls or awaits each in turn
    task,           \* per task: its position in the call and its locals
    ops_run,        \* a call of Cipher::apply_operations: its locals and position
    apply_run,      \* a call of Cipher::apply: its locals and position
    fn_run          \* a call of one of the pure functions: its argument and result

\* the instance and its tasks
inst == <<configs, retry_limit, player_url, lock, cipher_cache, loads, shardOf,
          shardW, shardR, threads, concurrent, task>>

vars == <<inst, ops_run, apply_run, fn_run>>

-----------------------------------------------------------------------------
(* Bounds of the model *)

NumTasks == 2
MaxConfigs == 2
MaxRetry == 1
NumShards == 2
MaxOps == 2         \* operations of a signature program
MaxArg == 3         \* the argument of an operation
MaxSig == 3         \* chars of a signature
MaxPairs == 2       \* query pairs of a stream url

Tasks == 1 .. NumTasks
Shards == 1 .. NumShards

-----------------------------------------------------------------------------
(* Option values *)

None == <<>>
Some(x) == <<x>>

-----------------------------------------------------------------------------
(* utils.rs *)

RECURSIVE FindFrom(_, _, _)
\* str::find of a one-token pattern: the least index >= i holding tok, 0 if none
FindFrom(hay, tok, i) ==
    IF i > Len(hay) THEN 0
    ELSE IF hay[i] = tok THEN i
    ELSE FindFrom(hay, tok, i + 1)

between(hay, start_pattern, end_pattern) ==
    LET start == FindFrom(hay, start_pattern, 1) IN
    IF start # 0
    THEN LET substr  == SubSeq(hay, start + 1, Len(hay))
             end_pos == FindFrom(substr, end_pattern, 1)
         IN  \* unwrap_or_default: an end pattern that is missing gives ..0
             IF end_pos = 0 THEN <<>> ELSE SubSeq(substr, 1, end_pos - 1)
    ELSE <<>>

-----------------------------------------------------------------------------
(* clients.rs *)

ClientType == {"Web", "WebEmbedded", "WebCreator",
               "Android", "AndroidEmbedded", "AndroidCreator",
               "Ios", "IosEmbedded", "IosCreator"}

\* mutant: every profile takes the player script
requires_player_all(client_type) == TRUE

\* lines 73-80
requires_player(client_type) ==
    ~(client_type \in {"Android", "AndroidEmbedded", "AndroidCreator",
                       "Ios", "IosEmbedded", "IosCreator"})

is_base(client_type) == client_type \in {"Web", "Android", "Ios"}

\* ClientConfig::new: the Client of each profile (its name, version and sdk)
Client(client_type) ==
    CASE client_type = "Web" ->
           [name |-> "WEB", version |-> "2.20220801.00.00", sdk |-> None]
      [] client_type = "WebEmbedded" ->
           [name |-> "WEB_EMBEDDED_PLAYER", version |-> "1.20220731.00.00", sdk |-> None]
      [] client_type = "WebCreator" ->
           [name |-> "WEB_CREATOR", version |-> "1.20220726.00.00", sdk |-> None]
      [] client_type = "Android" ->
           [name |-> "ANDROID", version |-> "19.09.37", sdk |-> Some(30)]
      [] client_type = "AndroidEmbedded" ->
           [name |-> "ANDROID_EMBEDDED_PLAYER", version |-> "19.09.37", sdk |-> Some(30)]
      [] client_type = "AndroidCreator" ->
           [name |-> "ANDROID_CREATOR", version |-> "22.30.100", sdk |-> Some(30)]
      [] client_type = "Ios" ->
           [name |-> "IOS", version |-> "19.09.3", sdk |-> None]
      [] client_type = "IosEmbedded" ->
           [name |-> "IOS_MESSAGES_EXTENSION", version |-> "19.09.3", sdk |-> None]
      [] client_type = "IosCreator" ->
           [name |-> "IOS_CREATOR", version |-> "22.33.101", sdk |-> None]

\* Map::insert of serde_json: a JSON object is a function of its keys
Put(map, k, v) == [x \in DOMAIN map \cup {k} |-> IF x = k THEN v ELSE map[x]]

EmbedUrl == [embedUrl |-> "https://www.youtube.com/"]

\* lines 37-64
context_json(client_type) ==
    LET named == [clientName |-> Client(client_type).name,
                  clientVersion |-> Client(client_type).version,
                  hl |-> "en"]
        sdked == IF Client(client_type).sdk # None
                 THEN Put(named, "androidSdkVersion", Client(client_type).sdk[1])
                 ELSE named
        client == IF is_base(client_type)
                  THEN Put(sdked, "clientScreen", "EMBED")
                  ELSE sdked
        \* lines 51-54 and 56-59: both branches insert thirdParty
        context == IF is_base(client_type)
                   THEN [thirdParty |-> EmbedUrl]
                   ELSE [thirdParty |-> EmbedUrl]
    IN Put(context, "client", client)

-----------------------------------------------------------------------------
(* cipher.rs: what Cipher::new keeps of a player script *)

Digits == {"19834", "20001"}

RECURSIVE FindTimestamp(_, _)
\* the leftmost match of (?:signatureTimestamp|sts):(\d+)
FindTimestamp(js, i) ==
    IF i + 1 > Len(js) THEN None
    ELSE IF js[i] \in {"signatureTimestamp:", "sts:"} /\ js[i + 1] \in Digits
         THEN Some(js[i + 1])
         ELSE FindTimestamp(js, i + 1)

extract_timestamp(js) == FindTimestamp(js, 1)

Cipher_new(player_js) == [timestamp |-> extract_timestamp(player_js)]

-----------------------------------------------------------------------------
(* innertube.rs: the pure parts *)

TTL == 86400

\* Instant::now(). Instants are opaque and the code only compares them and adds
\* to them, so they are measured in seconds from the current instant: as time
\* passes the stored instants move back (see Tick).
now == 0

PlayerUrl_new == [url |-> <<>>, expire_at |-> now]

\* mutant: the comparison is strict
is_expired_strict(p) == p.expire_at < now

is_expired(p) == p.expire_at <= now

set_url(url) == [url |-> url, expire_at |-> now + TTL]

starts_with(s, prefix) ==
    Len(s) >= Len(prefix) /\ SubSeq(s, 1, Len(prefix)) = prefix

JSURL == "\"jsUrl\":\""
QUOTE == "\""

\* lines 255-262: the url of the player script in the embed page
ExtractPlayerUrl(res) ==
    LET url == between(res, JSURL, QUOTE) IN
    IF starts_with(url, <<"/", "/">>)
    THEN <<"https:">> \o url
    ELSE IF starts_with(url, <<"/">>)
         THEN <<"https:", "/", "/", "www.youtube.com">> \o url
         ELSE url

RECURSIVE SplitFrom(_, _, _, _)
\* str::split of a one-token separator: the pieces, in order
SplitFrom(s, sep, i, piece) ==
    IF i > Len(s) THEN <<piece>>
    ELSE IF s[i] = sep THEN <<piece>> \o SplitFrom(s, sep, i + 1, <<>>)
    ELSE SplitFrom(s, sep, i + 1, Append(piece, s[i]))

split(s, sep) == SplitFrom(s, sep, 1, <<>>)

RECURSIVE FindService(_, _)
\* iter().find(|service| service.service == "GFEEDBACK")
FindService(services, i) ==
    IF i > Len(services) THEN None
    ELSE IF services[i].service = "GFEEDBACK" THEN Some(services[i])
    ELSE FindService(services, i + 1)

RECURSIVE FindParam(_, _)
\* iter().find(|param| param.key == "e")
FindParam(params, i) ==
    IF i > Len(params) THEN None
    ELSE IF params[i].key = "e" THEN Some(params[i])
    ELSE FindParam(params, i + 1)

video_invalid(video) ==
    LET service == FindService(video, 1) IN
    IF service = None THEN FALSE
    ELSE LET param == FindParam(service[1].params, 1) IN
         IF param = None THEN FALSE
         ELSE LET pieces == split(param[1].value, ",") IN
              \E k \in 1 .. Len(pieces) :
                  pieces[k] = <<"51217102">> \/ pieces[k] = <<"51217476">>

\* A str is the sequence of its chars. [[:alnum:]] and [[:word:]] of the pattern
\* are the ASCII classes; char::is_alphanumeric, \s and \S are the Unicode ones.
AsciiAlnum ==
   {"a", "b", "c", "d", "e", "f", "g", "h", "i", "j", "k", "l", "m", "n",
    "o", "p", "q", "r", "s", "t", "u", "v", "w", "x", "y", "z", "A", "B",
    "C", "D", "E", "F", "G", "H", "I", "J", "K", "L", "M", "N", "O", "P",
    "Q", "R", "S", "T", "U", "V", "W", "X", "Y", "Z", "0", "1", "2", "3",
    "4", "5", "6", "7", "8", "9"}
\* a char of two bytes that is alphanumeric, such as e with an acute accent
NonAsciiAlnum == {"e'"}
Whitespace == {" "}
is_alphanumeric(c) == c \in AsciiAlnum \cup NonAsciiAlnum
len_utf8(c) == IF c \in NonAsciiAlnum THEN 2 ELSE 1

RECURSIVE str_len(_)
\* str::len: the length in bytes
str_len(s) == IF s = <<>> THEN 0 ELSE len_utf8(Head(s)) + str_len(Tail(s))

\* the literal lit is at index i of s
IsAt(s, i, lit) ==
    /\ i + Len(lit) - 1 <= Len(s)
    /\ \A k \in 1 .. Len(lit) : s[i + k - 1] = lit[k]

\* line 303: ([[:word:]w-]{11}) at index i
IdAt(s, i) ==
    IF i + 10 <= Len(s)
       /\ \A k \in i .. i + 10 : s[k] \in AsciiAlnum \cup {"_", "-"}
    THEN Some(SubSeq(s, i, i + 10))
    ELSE None

\* lines 300-303: \S*? [^[:word:]\s-] and the id, from index j; the lazy
\* star takes the fewest chars that let the rest match
IdAfterHost(s, j) ==
    LET ks == {k \in 0 .. Len(s) - j :
                  /\ \A m \in j .. j + k - 1 : s[m] \notin Whitespace
                  /\ s[j + k] \notin AsciiAlnum \cup {"_", "-"} \cup Whitespace
                  /\ IdAt(s, j + k + 1) # None}
    IN IF ks = {} THEN None
       ELSE IdAt(s, j + (CHOOSE k \in ks : \A l \in ks : k <= l) + 1)

YOUTU_BE == <<"y", "o", "u", "t", "u", ".", "b", "e", "/">>
YOUTUBE == <<"y", "o", "u", "t", "u", "b", "e">>
NOCOOKIE == <<"-", "n", "o", "c", "o", "o", "k", "i", "e">>
DOT_COM == <<".", "c", "o", "m">>

\* lines 296-303: the hostname alternatives and the id, from index i, the
\* first alternative that matches taken
HostAt(s, i) ==
    LET short == IF IsAt(s, i, YOUTU_BE) THEN IdAt(s, i + Len(YOUTU_BE)) ELSE None
        nocookie == IF IsAt(s, i, YOUTUBE \o NOCOOKIE \o DOT_COM)
                    THEN IdAfterHost(s, i + Len(YOUTUBE \o NOCOOKIE \o DOT_COM))
                    ELSE None
        plain == IF IsAt(s, i, YOUTUBE \o DOT_COM)
                 THEN IdAfterHost(s, i + Len(YOUTUBE \o DOT_COM))
                 ELSE None
    IN IF short # None THEN short
       ELSE IF nocookie # None THEN nocookie
       ELSE plain

\* line 295: (?:[[:alnum:]-]+\.)? from index i, then the hostname; the
\* subdomain is tried first, and left out if the rest does not match with it
AfterSlashes(s, i) ==
    LET ends == {e \in i .. Len(s) :
                    \A k \in i .. e : s[k] \in AsciiAlnum \cup {"-"}}
        sub == IF ends = {} THEN None
               ELSE LET e == CHOOSE x \in ends : \A y \in ends : y <= x IN
                    IF e + 1 <= Len(s) /\ s[e + 1] = "."
                    THEN HostAt(s, e + 2)
                    ELSE None
    IN IF sub # None THEN sub ELSE HostAt(s, i)

\* line 307: PATTERN.captures(url), group 1 of the leftmost match. The
\* optional protocol before "//" does not change what follows it, so the
\* leftmost match is the one at the first "//" the rest matches after.
PATTERN_captures(url) ==
    LET js == {j \in 1 .. Len(url) - 1 :
                  /\ url[j] = "/"
                  /\ url[j + 1] = "/"
                  /\ AfterSlashes(url, j + 2) # None}
    IN IF js = {} THEN None
       ELSE AfterSlashes(url, (CHOOSE j \in js : \A l \in js : j <= l) + 2)

get_video_id(url) ==
    LET cap == PATTERN_captures(url) IN
    IF cap # None THEN cap
    ELSE IF str_len(url) = 11
            /\ \A i \in 1 .. Len(url) :
                   is_alphanumeric(url[i]) \/ url[i] = "-" \/ url[i] = "_"
         THEN Some(url)
         ELSE None

-----------------------------------------------------------------------------
(* cipher.rs: extract_operations *)

\* the literal lit is somewhere in s: Regex::is_match of a literal
Contains(s, lit) == \E i \in 1 .. Len(s) : IsAt(s, i, lit)

REVERSE == <<"a.reverse()">>
SLICE == <<"return ", "a.slice(b)">>
SPLICE == <<"a.splice(0,b)">>
SWAP == <<"var c=a[0]", ";", "a[0]=a[b%a.length]", ";", "a[b%a.length]=c">>

Numerals == <<"0", "1", "2", "3", "4">>

\* line 45: param.parse::<usize>().unwrap_or(0)
parse_or_0(param) ==
    IF Len(param) = 1 /\ \E k \in 1 .. Len(Numerals) : Numerals[k] = param[1]
    THEN (CHOOSE k \in 1 .. Len(Numerals) : Numerals[k] = param[1]) - 1
    ELSE 0

\* lines 32-56: Operation::new(def, param)
Operation_new(def, param) ==
    IF Contains(def, REVERSE) THEN [kind |-> "Ok", val |-> [op |-> "Reverse", x |-> 0]]
    ELSE IF Contains(def, SLICE)
    THEN [kind |-> "Ok", val |-> [op |-> "Slice", x |-> parse_or_0(param)]]
    ELSE IF Contains(def, SPLICE)
    THEN [kind |-> "Ok", val |-> [op |-> "Splice", x |-> parse_or_0(param)]]
    ELSE IF Contains(def, SWAP)
    THEN [kind |-> "Ok", val |-> [op |-> "Swap", x |-> parse_or_0(param)]]
    ELSE [kind |-> "Err", val |-> <<"Cipher">>]

\* identifiers of a player script
Idents == {"Xy", "Fo", "Bo", "Do"}

\* what MAIN_DEF has after the name, up to the body, and after the body
MAIN_HEAD == "=function(a){a=a.split(\"\");"
MAIN_TAIL == ";return a.join(\"\")}"
\* what FUNC_DEF has after the name, up to the body
FUNC_HEAD == {":function(a){", ":function(a,b){"}

RECURSIVE FindMainFrom(_, _)
\* lines 182-201: the leftmost name the candidates capture
FindMainFrom(js, i) ==
    IF i + 1 > Len(js) THEN None
    ELSE IF js[i] \in Idents /\ js[i + 1] = MAIN_HEAD THEN Some(js[i])
    ELSE FindMainFrom(js, i + 1)

find_main(js) == FindMainFrom(js, 1)

\* lines 210-213 and 218: group 1 of the leftmost match of the name and
\* MAIN_DEF; its (.*) is greedy and reaches the last MAIN_TAIL
MainBody(js, main) ==
    LET tails == {e \in 1 .. Len(js) : js[e] = MAIN_TAIL}
        starts == {i \in 1 .. Len(js) - 1 :
                      /\ js[i] = main
                      /\ js[i + 1] = MAIN_HEAD
                      /\ \E e \in tails : e > i + 1}
    IN IF starts = {} THEN None
       ELSE LET i == CHOOSE x \in starts : \A y \in starts : x <= y
                e == CHOOSE x \in tails : \A y \in tails : y <= x
            IN Some(SubSeq(js, i + 2, e - 1))

\* lines 219-221: the name and the argument of each call of the body
CallsOf(body) ==
    [k \in 1 .. Len(split(body, ";")) |->
        [n |-> between(split(body, ";")[k], ".", "("),
         a |-> between(split(body, ";")[k], ",", ")")]]

\* the first name, in the order of the alternation, that is at index i and
\* is followed by FUNC_HEAD, a body and "}"; 0 if none
NameAt(js, names, i) ==
    LET ks == {k \in 1 .. Len(names) :
                  /\ IsAt(js, i, names[k])
                  /\ i + Len(names[k]) <= Len(js)
                  /\ js[i + Len(names[k])] \in FUNC_HEAD
                  /\ FindFrom(js, "}", i + Len(names[k]) + 1) # 0}
    IN IF ks = {} THEN 0 ELSE CHOOSE k \in ks : \A l \in ks : k <= l

RECURSIVE DefsFrom(_, _, _, _)
\* lines 229-234: captures_iter of (names)FUNC_DEF collected into a HashMap;
\* a later definition of a name replaces an earlier one
DefsFrom(js, names, i, defs) ==
    IF i > Len(js) THEN defs
    ELSE LET k == NameAt(js, names, i) IN
         IF k = 0 THEN DefsFrom(js, names, i + 1, defs)
         ELSE LET open == i + Len(names[k])
                  close == FindFrom(js, "}", open + 1)
              IN DefsFrom(js, names, close + 1,
                          Put(defs, names[k], SubSeq(js, open + 1, close - 1)))

HelperDefs(js, calls) == DefsFrom(js, [k \in 1 .. Len(calls) |-> calls[k].n], 1, <<>>)

RECURSIVE CollectOps(_, _, _, _)
\* lines 237-239: the calls are converted in order; unwrap panics on a name
\* with no definition, and collect stops at the first Err
CollectOps(calls, defs, k, ops) ==
    IF k > Len(calls) THEN [kind |-> "Return", val |-> Some(ops)]
    ELSE IF calls[k].n \notin DOMAIN defs THEN [kind |-> "Panic", val |-> <<>>]
    ELSE LET r == Operation_new(defs[calls[k].n], calls[k].a) IN
         IF r.kind = "Err" THEN [kind |-> "Return", val |-> None]
         ELSE CollectOps(calls, defs, k + 1, Append(ops, r.val))

\* lines 204-240
extract_operations(js) ==
    LET main == find_main(js) IN
    IF main = None THEN [kind |-> "Return", val |-> None]
    ELSE LET body == MainBody(js, main[1]) IN
         IF body = None THEN [kind |-> "Return", val |-> None]
         ELSE CollectOps(CallsOf(body[1]), HelperDefs(js, CallsOf(body[1])), 1, <<>>)

-----------------------------------------------------------------------------
(* The environment: what the servers may answer *)

\* bodies of https://www.youtube.com/embed/
EmbedBodies ==
    { <<"<html>", JSURL, "/", "s", "/", "base_a.js", QUOTE, "</html>">>,
      <<"<html>", JSURL, "/", "/", "www.youtube.com", "/", "s", "/", "base_b.js", QUOTE>>,
      <<"<html>", "</html>">> }

PlayerUrls == { ExtractPlayerUrl(b) : b \in EmbedBodies }

\* bodies of a player script
PlayerScripts ==
    { <<"var", "x", ";", "signatureTimestamp:", "19834", ";">>,
      <<"var", "x", ";">> }

\* responses of the player endpoint: Video.response_context.service_tracking_params
VideoResponses ==
    { << [service |-> "CSI",
          params |-> << [key |-> "c", value |-> <<"WEB">>] >>] >>,
      << [service |-> "GFEEDBACK",
          params |-> << [key |-> "e", value |-> <<"51217102", ",", "42">>] >>] >>,
      << [service |-> "CSI",
          params |-> << [key |-> "c", value |-> <<"WEB">>] >>],
         [service |-> "GFEEDBACK",
          params |-> << [key |-> "logged_in", value |-> <<"0">>],
                        [key |-> "e", value |-> <<"42", ",", "51217476">>] >>] >> }

\* arguments of info
InfoInputs ==
    { <<"N", "L", "q", "A", "F", "9", "h", "r", "V", "b", "Y">>,
      <<"I", "B", "3", "l", "c", "P", "j", "v", "W">>,
      <<"h", "t", "t", "p", ":", "/", "/", "y", "o", "u", "t", "u", ".", "b", "e", "/">> \o <<"N", "L", "q", "A", "F", "9", "h", "r", "V", "b", "Y">>,
      <<"h", "t", "t", "p", "s", ":", "/", "/", "e", "x", "a", "m", "p", "l", "e", ".", "c", "o", "m", "/">> }

-----------------------------------------------------------------------------
(* Results of a call *)

NoResult == [kind |-> "none", val |-> <<>>]
Ok(v) == [kind |-> "Ok", val |-> v]
Err(e) == [kind |-> "Err", val |-> <<e>>]
Cancelled == [kind |-> "Cancelled", val |-> <<>>]
\* the call unwinds from a panic
Panicked == [kind |-> "Panic", val |-> <<>>]
\* no call is being followed
NoRun == [pc |-> "none"]

Profiles == 1 .. MaxConfigs

IdleTask ==
    [pc |-> "idle", op |-> "none", idx |-> 0, attempt |-> 0, key |-> <<>>,
     sts |-> None, res |-> NoResult, failed |-> "none",
     posts |-> [i \in Profiles |-> 0],
     fate |-> [i \in Profiles |-> "untried"]]

\* the call returns: its locals are dropped
Finish(r, res) ==
    [r EXCEPT !.pc = "done", !.res = res, !.attempt = 0, !.key = <<>>, !.sts = None]

\* mutant: the error is noted and the call goes on
FailHttp_swallowed(r, call) == [r EXCEPT !.failed = call]

\* the HTTP call `call` of the task came back with an error: `?` returns it
\* (lines 168, 175, 196-198; 135-136)
FailHttp(r, call) == Finish([r EXCEPT !.failed = call], Err("Reqwest"))

-----------------------------------------------------------------------------
(* cipher.rs: Cipher::apply_operations *)

Operation ==
    {[op |-> "Reverse", x |-> 0]}
    \cup [op : {"Swap", "Slice", "Splice"}, x : 0 .. MaxArg]

\* slice::reverse
Reversed(chars) == [i \in 1 .. Len(chars) |-> chars[Len(chars) + 1 - i]]

\* slice::swap(0, j), for j within the slice
Swapped(chars, j) == [chars EXCEPT ![1] = chars[j + 1], ![j + 1] = chars[1]]

\* mutant: Splice(x) keeps the x chars it should remove
ApplyOp_keep(op, chars, signature) ==
    CASE op.op = "Swap" ->
            IF str_len(signature) = 0 THEN Panicked
            ELSE IF op.x % str_len(signature) >= Len(chars) THEN Panicked
            ELSE Ok(Swapped(chars, op.x % str_len(signature)))
      [] op.op = "Reverse" -> Ok(Reversed(chars))
      [] op.op = "Slice" ->
            IF op.x > Len(chars) THEN Panicked
            ELSE Ok(SubSeq(chars, op.x + 1, Len(chars)))
      [] op.op = "Splice" ->
            IF op.x > Len(chars) THEN Panicked
            ELSE Ok(SubSeq(chars, 1, op.x))

\* lines 150-156: one arm of the match. signature is the str the chars were
\* collected from: its len() counts bytes. The remainder by zero, an index
\* outside the Vec and a drain range past its end panic.
ApplyOp(op, chars, signature) ==
    CASE op.op = "Swap" ->
            IF str_len(signature) = 0 THEN Panicked
            ELSE IF op.x % str_len(signature) >= Len(chars) THEN Panicked
            ELSE Ok(Swapped(chars, op.x % str_len(signature)))
      [] op.op = "Reverse" -> Ok(Reversed(chars))
      [] op.op \in {"Slice", "Splice"} ->
            IF op.x > Len(chars) THEN Panicked
            ELSE Ok(SubSeq(chars, op.x + 1, Len(chars)))

RECURSIVE RunOps(_, _, _, _)
\* lines 149-158: the for loop from its i-th operation on
RunOps(operations, i, chars, signature) ==
    IF i > Len(operations) THEN Ok(chars)
    ELSE LET r == ApplyOp(operations[i], chars, signature) IN
         IF r.kind = "Panic" THEN r
         ELSE RunOps(operations, i + 1, r.val, signature)

\* mutant: without operations the signature is returned as it came
apply_operations_unsigned(cipher, signature) ==
    IF cipher.operations = None
    THEN Ok(signature)
    ELSE RunOps(cipher.operations[1], 1, signature, signature)

\* lines 142-159
apply_operations(cipher, signature) ==
    IF cipher.operations = None
    THEN Err("Cipher")                                           \* line 146
    ELSE RunOps(cipher.operations[1], 1, signature, signature)   \* line 148

-----------------------------------------------------------------------------
(* cipher.rs: Cipher::apply *)

\* The literal keys of the code. A query string is the sequence of its decoded
\* <<key, value>> pairs, as form_urlencoded::parse and Url::query_pairs yield
\* them and as Serializer::extend_pairs takes them.
K_url == <<"url">>
K_sp == <<"sp">>
K_s == <<"s">>
K_n == <<"n">>
K_signature == <<"signature">>
ENHANCED_EXCEPT == <<"enhanced_except">>

\* lines 110, 121: collect() into a HashMap; a later pair of a key replaces
\* the earlier one
Collect(pairs) ==
    [k \in {pairs[i][1] : i \in 1 .. Len(pairs)} |->
        pairs[CHOOSE i \in 1 .. Len(pairs) :
                  /\ pairs[i][1] = k
                  /\ \A j \in 1 .. Len(pairs) : pairs[j][1] = k => j <= i][2]]

\* HashMap::remove, HashMap::get
Get(map, k) == IF k \in DOMAIN map THEN Some(map[k]) ELSE None

\* HashMap::insert
Insert(map, k, v) == [x \in DOMAIN map \cup {k} |-> IF x = k THEN v ELSE map[x]]

\* line 120: Url::parse; a url is [base, query], a relative one has no base
Url_parse(url) == IF url.base = <<>> THEN Err("UrlParse") ELSE Ok(url)

\* line 169: what the script engine makes of `let n={nfunc};n("{nparam}")`,
\* for the three kinds of n function of this model
eval(nfunc, nparam) ==
    CASE nfunc = "transform" -> Ok(<<"T">> \o nparam)
      [] nfunc = "enhanced_except" -> Ok(ENHANCED_EXCEPT \o <<"_">> \o nparam)
      [] nfunc = "throw" -> Err("exception")

\* lines 162-178
apply_nfunc(cipher, nparam) ==
    IF cipher.nfunc = None THEN Err("Cipher")                    \* line 166
    ELSE LET x == eval(cipher.nfunc[1], nparam) IN
         IF x.kind = "Ok"
         THEN IF starts_with(x.val, ENHANCED_EXCEPT)
              THEN Err("JSEnhancedExcept")                       \* line 172
              ELSE x
         ELSE Err("JSExecution")                                 \* line 176

\* lines 123-126: the n parameter of the url
n_step(cipher, queries) ==
    IF K_n \in DOMAIN queries
    THEN LET result == apply_nfunc(cipher, queries[K_n]) IN
         IF result.kind = "Ok"
         THEN Ok(Insert(queries, K_n, result.val))
         ELSE result                                             \* the ? of line 124
    ELSE Ok(queries)

\* mutant: the signature parameter is named n when the blob has no sp
sp_or_default_n(sp) == IF sp = None THEN K_n ELSE sp[1]

\* line 129: the name of the signature parameter
sp_or_default(sp) == IF sp = None THEN K_signature ELSE sp[1]

\* lines 128-132: the signature of the blob
sig_step(cipher, sp, s, queries) ==
    IF s # None
    THEN LET result == apply_operations(cipher, s[1]) IN
         IF result.kind = "Ok"
         THEN Ok(Insert(queries, sp_or_default(sp), result.val))
         ELSE result                                             \* the ? of line 130
    ELSE Ok(queries)

RECURSIVE Orders(_)
\* the orders a HashMap may iterate its keys in
Orders(keys) ==
    IF keys = {} THEN {<<>>}
    ELSE UNION {{<<k>> \o o : o \in Orders(keys \ {k})} : k \in keys}

-----------------------------------------------------------------------------
(* Innertube::info, between its suspension points *)

RECURSIVE InfoAt(_, _)
RECURSIVE InfoPostLoop(_, _, _)

\* mutant: the POST of a profile is sent before the player is looked up
InfoAt_post_first(r, i) ==
    IF i > Len(configs)
    THEN Finish([r EXCEPT !.idx = i], Err("VideoInfo"))
    ELSE InfoPostLoop([r EXCEPT !.idx = i, !.sts = None], i, 0)

\* mutant: the loop over configs stops one profile early
InfoAt_short(r, i) ==
    IF i >= Len(configs)
    THEN Finish([r EXCEPT !.idx = i], Err("VideoInfo"))
    ELSE IF requires_player(configs[i])
         THEN [r EXCEPT !.pc = "gpu_lock", !.idx = i, !.sts = None]
         ELSE InfoPostLoop([r EXCEPT !.idx = i, !.sts = None], i, 0)

\* line 160: the for loop over configs reaches index i
InfoAt(r, i) ==
    IF i > Len(configs)
    THEN Finish([r EXCEPT !.idx = i], Err("VideoInfo"))          \* line 205
    ELSE IF requires_player(configs[i])
         THEN [r EXCEPT !.pc = "gpu_lock", !.idx = i, !.sts = None]   \* line 168
         ELSE InfoPostLoop([r EXCEPT !.idx = i, !.sts = None], i, 0)

\* mutant: the loop over attempts runs once more
InfoPostLoop_extra(r, i, a) ==
    IF a <= retry_limit + 1
    THEN [r EXCEPT !.pc = "post", !.attempt = a,
                   !.posts = [@ EXCEPT ![i] = @ + 1],
                   !.fate = [@ EXCEPT ![i] = "posting"]]
    ELSE InfoAt([r EXCEPT !.fate = [@ EXCEPT ![i] = "exhausted"]], i + 1)

\* mutant: the loop over attempts runs twice as long
InfoPostLoop_twice(r, i, a) ==
    IF a <= 2 * retry_limit + 1
    THEN [r EXCEPT !.pc = "post", !.attempt = a,
                   !.posts = [@ EXCEPT ![i] = @ + 1],
                   !.fate = [@ EXCEPT ![i] = "posting"]]
    ELSE InfoAt([r EXCEPT !.fate = [@ EXCEPT ![i] = "exhausted"]], i + 1)

\* line 192: the for loop over 0..=retry_limit reaches attempt a of config i
InfoPostLoop(r, i, a) ==
    IF a <= retry_limit
    THEN [r EXCEPT !.pc = "post", !.attempt = a,                 \* lines 193-196
                   !.posts = [@ EXCEPT ![i] = @ + 1],
                   !.fate = [@ EXCEPT ![i] = "posting"]]
    ELSE InfoAt([r EXCEPT !.fate = [@ EXCEPT ![i] = "exhausted"]], i + 1)

\* lines 171 and 186: continue
InfoSkip(r) ==
    InfoAt([r EXCEPT !.fate = [@ EXCEPT ![r.idx] = "skipped"]], r.idx + 1)

-----------------------------------------------------------------------------
(* The executor and DashMap's shard locks *)

Blocked == {t \in Tasks : task[t].pc = "gcp_entry"}

\* a task is polled on a worker thread; a task spinning on a shard lock keeps its thread
ThreadFree == Cardinality(Blocked) < threads

\* mutant: the entry is looked up without holding the shard
ShardFree_unlocked(s) == TRUE

\* line 234: entry() gets the write lock of a shard no guard is held on
ShardFree(s) == shardW[s] = 0 /\ shardR[s] = {}

ReleaseShard(t) ==
    /\ shardW' = [s \in Shards |-> IF shardW[s] = t THEN 0 ELSE shardW[s]]
    /\ shardR' = [s \in Shards |-> shardR[s] \ {t}]

\* mutant: info goes on to the POST whether the Cipher has a timestamp or not
WithPair_unstamped(t, r, cipher) ==
    IF r.op = "info"
    THEN /\ ReleaseShard(t)
         /\ task' = [task EXCEPT ![t] =
                InfoPostLoop([r EXCEPT !.sts = cipher.timestamp, !.key = <<>>],
                             r.idx, 0)]
    ELSE /\ shardW' = [s \in Shards |-> IF shardW[s] = t THEN 0 ELSE shardW[s]]
         /\ shardR' = [shardR EXCEPT ![shardOf[r.key]] = @ \cup {t}]
         /\ task' = [task EXCEPT ![t] = [r EXCEPT !.pc = "df_js"]]

\* A Ref to the Cipher of r.key is in hand (lines 176-187, 138-145).
\* Sets task', shardW', shardR'.
WithPair(t, r, cipher) ==
    IF r.op = "info"
    THEN \* the Ref is dropped at the end of the if block, before the POST
         /\ ReleaseShard(t)
         /\ task' = [task EXCEPT ![t] =
                IF cipher.timestamp # None
                THEN InfoPostLoop([r EXCEPT !.sts = cipher.timestamp, !.key = <<>>],
                                  r.idx, 0)
                ELSE InfoSkip(r)]
    ELSE \* decipher_format keeps the Ref across the script engine's awaits
         /\ shardW' = [s \in Shards |-> IF shardW[s] = t THEN 0 ELSE shardW[s]]
         /\ shardR' = [shardR EXCEPT ![shardOf[r.key]] = @ \cup {t}]
         /\ task' = [task EXCEPT ![t] = [r EXCEPT !.pc = "df_js"]]

\* mutant: an entry is looked up as if it were not there
Vacant_always(key) == TRUE

\* lines 235, 239: the arm of the match on entry(key)
Vacant(key) == cipher_cache[key] = None

\* lines 234-240: entry() has the shard's write lock. Sets task', shardW', shardR'.
EntryGranted(t, r) ==
    IF Vacant(r.key)
    THEN \* Entry::Vacant
         IF r.key = <<>>
         THEN \* the client refuses to build a GET of "": send() fails unsuspended
              /\ task' = [task EXCEPT ![t] = FailHttp(r, "script")]
              /\ UNCHANGED <<shardW, shardR>>
         ELSE \* the GET of the script is sent, the entry is held across the await
              /\ shardW' = [shardW EXCEPT ![shardOf[r.key]] = t]
              /\ shardR' = shardR
              /\ task' = [task EXCEPT ![t] = [r EXCEPT !.pc = "gcp_fetch"]]
    ELSE \* Entry::Occupied: into_ref().downgrade()
         WithPair(t, r, cipher_cache[r.key][1])

\* line 234: get_cipher_pair(r.key) calls entry(). Sets task', shardW', shardR'.
get_cipher_pair(t, r) ==
    IF ShardFree(shardOf[r.key])
    THEN EntryGranted(t, r)
    ELSE /\ task' = [task EXCEPT ![t] = [r EXCEPT !.pc = "gcp_entry"]]
         /\ UNCHANGED <<shardW, shardR>>

\* get_player_url returned url (lines 168-175, 135-136). Sets task', shardW', shardR'.
AfterPlayerUrl(t, r, url) ==
    IF r.op = "info" /\ url = <<>>
    THEN /\ task' = [task EXCEPT ![t] = InfoSkip(r)]
         /\ UNCHANGED <<shardW, shardR>>
    ELSE get_cipher_pair(t, [r EXCEPT !.key = url])

-----------------------------------------------------------------------------
(* Actions *)

\* Spawned tasks make one call each (tasks are alike: they start in the order
\* of their numbers); a caller that awaits its calls makes one after another.
MayStart(t) ==
    IF concurrent
    THEN task[t].pc = "idle" /\ (IF t = 1 THEN TRUE ELSE task[t - 1].pc # "idle")
    ELSE t = 1 /\ task[t].pc \in {"idle", "done"}

\* info(video) is called
StartInfo(t) ==
    /\ MayStart(t)
    /\ ThreadFree
    /\ \E video \in InfoInputs :
          LET r == [IdleTask EXCEPT !.op = "info"] IN
          task' = [task EXCEPT ![t] =
              IF get_video_id(video) = None
              THEN Finish(r, Err("NotYoutubeUrl"))               \* line 158
              ELSE InfoAt(r, 1)]
    /\ UNCHANGED <<ops_run, apply_run, fn_run, configs, retry_limit, player_url, lock, cipher_cache, loads,
                   shardOf, shardW, shardR, threads, concurrent>>

\* decipher_format(format) is called
StartDecipher(t) ==
    /\ MayStart(t)
    /\ ThreadFree
    /\ task' = [task EXCEPT ![t] = [IdleTask EXCEPT !.op = "decipher", !.pc = "gpu_lock"]]
    /\ UNCHANGED <<ops_run, apply_run, fn_run, configs, retry_limit, player_url, lock, cipher_cache, loads,
                   shardOf, shardW, shardR, threads, concurrent>>

\* mutant: the handle is read without the lock
LockFree_unlocked == TRUE

\* line 245: lock().await is granted when no task holds the guard
LockFree == lock = 0

\* lines 245-246, 270: lock().await is granted; an unexpired url is returned
LockAcquire(t) ==
    /\ task[t].pc = "gpu_lock"
    /\ LockFree
    /\ ThreadFree
    /\ IF is_expired(player_url)
       THEN /\ lock' = t                                         \* lines 247-250
            /\ task' = [task EXCEPT ![t] = [@ EXCEPT !.pc = "gpu_fetch"]]
            /\ UNCHANGED <<shardW, shardR>>
       ELSE /\ lock' = 0
            /\ AfterPlayerUrl(t, task[t], player_url.url)
    /\ UNCHANGED <<ops_run, apply_run, fn_run, configs, retry_limit, player_url, cipher_cache, loads, shardOf,
                   threads, concurrent>>

\* mutant: a failed GET is stored like a page without a jsUrl
EmbedFetchErr_memoized(t) ==
    /\ task' = [task EXCEPT ![t] = FailHttp(@, "embed")]
    /\ player_url' = set_url(<<>>)
    /\ UNCHANGED <<shardW, shardR>>

\* lines 251, 253: the GET of the embed page fails and `?` returns the error.
\* Sets task', player_url', shardW', shardR'.
EmbedFetchErr(t) ==
    /\ task' = [task EXCEPT ![t] = FailHttp(@, "embed")]
    /\ UNCHANGED <<player_url, shardW, shardR>>

\* lines 251-270: the GET of the embed page comes back; the guard is dropped
EmbedFetchDone(t) ==
    /\ task[t].pc = "gpu_fetch"
    /\ ThreadFree
    /\ lock' = 0
    /\ \/ EmbedFetchErr(t)
       \/ \E res \in EmbedBodies :
             LET url == ExtractPlayerUrl(res) IN
             /\ player_url' = set_url(url)
             /\ AfterPlayerUrl(t, task[t], url)
    /\ UNCHANGED <<ops_run, apply_run, fn_run, configs, retry_limit, cipher_cache, loads, shardOf, threads,
                   concurrent>>

\* line 234: a task spinning in entry() gets the shard
EntryUnblock(t) ==
    /\ task[t].pc = "gcp_entry"
    /\ ShardFree(shardOf[task[t].key])
    /\ EntryGranted(t, task[t])
    /\ UNCHANGED <<ops_run, apply_run, fn_run, configs, retry_limit, player_url, lock, cipher_cache, loads,
                   shardOf, threads, concurrent>>

\* mutant: a failed GET inserts the Cipher of an empty script
ScriptFetchErr_inserted(t) ==
    /\ task' = [task EXCEPT ![t] = FailHttp(@, "script")]
    /\ ReleaseShard(t)
    /\ cipher_cache' = [cipher_cache EXCEPT ![task[t].key] = Some(Cipher_new(<<>>))]
    /\ UNCHANGED loads

\* line 236: the GET of the player script fails and `?` returns the error: the
\* vacant entry is dropped. Sets task', shardW', shardR', cipher_cache', loads'.
ScriptFetchErr(t) ==
    /\ task' = [task EXCEPT ![t] = FailHttp(@, "script")]
    /\ ReleaseShard(t)
    /\ UNCHANGED <<cipher_cache, loads>>

\* lines 236-237: the GET of the player script comes back
ScriptFetchDone(t) ==
    /\ task[t].pc = "gcp_fetch"
    /\ ThreadFree
    /\ \/ ScriptFetchErr(t)
       \/ \E player_js \in PlayerScripts :
             /\ cipher_cache' = [cipher_cache EXCEPT
                                    ![task[t].key] = Some(Cipher_new(player_js))]
             /\ loads' = [loads EXCEPT ![task[t].key] = Append(@, player_js)]
             /\ WithPair(t, task[t], Cipher_new(player_js))
    /\ UNCHANGED <<ops_run, apply_run, fn_run, configs, retry_limit, player_url, lock, shardOf, threads,
                   concurrent>>

\* mutant: the response is returned unchecked
PostAccepts_unchecked(res) == TRUE

\* line 200: the response is returned
PostAccepts(res) == ~video_invalid(res)

\* lines 196-203: the POST to the player endpoint comes back
PostDone(t) ==
    /\ task[t].pc = "post"
    /\ ThreadFree
    /\ \/ task' = [task EXCEPT ![t] = FailHttp(@, "post")]
       \/ \E res \in VideoResponses :
             LET r == task[t] IN
             task' = [task EXCEPT ![t] =
                 IF PostAccepts(res)
                 THEN Finish([r EXCEPT !.fate = [@ EXCEPT ![r.idx] = "valid"]], Ok(res))
                 ELSE InfoPostLoop(r, r.idx, r.attempt + 1)]
    /\ UNCHANGED <<ops_run, apply_run, fn_run, configs, retry_limit, player_url, lock, cipher_cache, loads,
                   shardOf, shardW, shardR, threads, concurrent>>

\* lines 138-145: the script engine's awaits come back and the Ref is dropped
JsDone(t) ==
    /\ task[t].pc = "df_js"
    /\ ThreadFree
    /\ ReleaseShard(t)
    /\ \E res \in {Ok(<<>>), Err("Cipher")} :
          task' = [task EXCEPT ![t] = Finish(@, res)]
    /\ UNCHANGED <<ops_run, apply_run, fn_run, configs, retry_limit, player_url, lock, cipher_cache, loads,
                   shardOf, threads, concurrent>>

\* the call's future is dropped at an await: its guards are dropped with it
Cancel(t) ==
    /\ task[t].pc \in {"gpu_lock", "gpu_fetch", "gcp_fetch", "post", "df_js"}
    /\ lock' = IF lock = t THEN 0 ELSE lock
    /\ ReleaseShard(t)
    /\ task' = [task EXCEPT ![t] = Finish(@, Cancelled)]
    /\ UNCHANGED <<ops_run, apply_run, fn_run, configs, retry_limit, player_url, cipher_cache, loads, shardOf,
                   threads, concurrent>>

\* Half a day passes. An instant that is already past stays past (is_expired
\* reads it with <=), so it is kept at the current one.
Tick ==
    /\ ~is_expired(player_url)
    /\ player_url' = [player_url EXCEPT !.expire_at =
                          IF @ - TTL \div 2 < now THEN now ELSE @ - TTL \div 2]
    /\ UNCHANGED <<ops_run, apply_run, fn_run, configs, retry_limit, lock, cipher_cache, loads, shardOf, shardW,
                   shardR, threads, concurrent, task>>

-----------------------------------------------------------------------------
(* Specification *)

RECURSIVE SeqsUpTo(_, _)
SeqsUpTo(S, n) ==
    IF n = 0 THEN {<<>>}
    ELSE LET shorter == SeqsUpTo(S, n - 1) IN
         shorter \cup {Append(s, x) : s \in shorter, x \in S}

\* Innertube::new(config), lines 109-123
New(config) ==
    /\ configs = config.configs
    /\ retry_limit = config.retry_limit
    /\ player_url = PlayerUrl_new
    /\ lock = 0
    /\ cipher_cache = [k \in PlayerUrls |-> None]
    /\ loads = [k \in PlayerUrls |-> <<>>]
    /\ shardW = [s \in Shards |-> 0]
    /\ shardR = [s \in Shards |-> {}]

\* the configuration of the instance the spawned tasks share
SmallConfig == [configs |-> <<"Web">>, retry_limit |-> 0]

Configs ==
    [configs : SeqsUpTo({"Ios", "Web"}, MaxConfigs), retry_limit : -1 .. MaxRetry]

\* the keys of the cache, in an order
KeyOrder == <<ExtractPlayerUrl(<<>>),
              ExtractPlayerUrl(<<JSURL, "/", "s", "/", "base_a.js", QUOTE>>),
              ExtractPlayerUrl(<<JSURL, "/", "/", "www.youtube.com", "/", "s", "/", "base_b.js", QUOTE>>)>>

\* The hasher of the map is seeded at random (RandomState), so any two keys
\* may or may not share a shard: one map puts all keys in one shard, the other
\* spreads them over the shards.
ShardMaps ==
    {[k \in PlayerUrls |-> 1],
     [k \in PlayerUrls |->
        (((CHOOSE i \in 1 .. Len(KeyOrder) : KeyOrder[i] = k) - 1) % NumShards) + 1]}

\* One instance, and either tasks spawned on it or calls made one after another.
Init ==
    /\ \/ /\ concurrent = TRUE
          /\ New(SmallConfig)
          /\ shardOf \in ShardMaps
       \/ /\ concurrent = FALSE
          /\ \E config \in Configs : New(config)
          /\ shardOf = [k \in PlayerUrls |-> 1]
    /\ threads = NumTasks
    /\ task = [t \in Tasks |-> IdleTask]
    /\ ops_run = NoRun
    /\ apply_run = NoRun
    /\ fn_run = NoRun

Next ==
    \/ \E t \in Tasks : StartInfo(t)
    \/ \E t \in Tasks : StartDecipher(t)
    \/ \E t \in Tasks : LockAcquire(t)
    \/ \E t \in Tasks : EmbedFetchDone(t)
    \/ \E t \in Tasks : EntryUnblock(t)
    \/ \E t \in Tasks : ScriptFetchDone(t)
    \/ \E t \in Tasks : PostDone(t)
    \/ \E t \in Tasks : JsDone(t)
    \/ \E t \in Tasks : Cancel(t)
    \/ Tick

Spec == Init /\ [][Next]_vars

\* Every HTTP call and every call of the script engine returns (with a
\* response or an error), and the executor polls a task that can go on: one
\* that waits for the lock when it is free (tokio's Mutex is fair) and one
\* that spins on a shard when its guards are gone.
Returns ==
    \A t \in Tasks :
        /\ WF_vars(LockAcquire(t))
        /\ WF_vars(EmbedFetchDone(t))
        /\ WF_vars(EntryUnblock(t))
        /\ WF_vars(ScriptFetchDone(t))
        /\ WF_vars(PostDone(t))
        /\ WF_vars(JsDone(t))

FairSpec == Spec /\ Returns

\* Tasks spawned on an executor of any number of worker threads, from one (a
\* current-thread runtime: the tasks are interleaved on it) to one per task.
InitCoop ==
    /\ concurrent = TRUE
    /\ New(SmallConfig)
    /\ shardOf \in ShardMaps
    /\ threads \in 1 .. NumTasks
    /\ task = [t \in Tasks |-> IdleTask]
    /\ ops_run = NoRun
    /\ apply_run = NoRun
    /\ fn_run = NoRun

CoopSpec == InitCoop /\ [][Next]_vars /\ Returns


-----------------------------------------------------------------------------
(* Cipher::apply_operations on its own: every program on every signature *)

\* signature programs: every sequence of at most MaxOps operations
Programs == SeqsUpTo(Operation, MaxOps)

\* the ASCII chars a signature is made of
SigChars == <<"a", "b", "c", "d", "e", "f">>

\* signatures of every length up to MaxSig, ASCII or starting with a char of
\* two bytes
Signatures ==
    { SubSeq(SigChars, 1, n) : n \in 0 .. MaxSig }
    \cup { <<"e'">> \o SubSeq(SigChars, 1, n - 1) : n \in 1 .. MaxSig }

\* an instance nothing is called on
Quiet ==
    /\ concurrent = FALSE
    /\ New(SmallConfig)
    /\ shardOf = [k \in PlayerUrls |-> 1]
    /\ threads = NumTasks
    /\ task = [t \in Tasks |-> IdleTask]

\* line 148: apply_operations(signature) is entered with operations recorded
InitOps ==
    /\ Quiet
    /\ apply_run = NoRun
    /\ fn_run = NoRun
    /\ \E operations \in Programs, signature \in Signatures :
          ops_run = [pc |-> "loop", operations |-> operations,
                     signature |-> signature, chars |-> signature, i |-> 1]

\* lines 149-156: one turn of the for loop
OpsStep ==
    /\ ops_run.pc = "loop"
    /\ ops_run.i <= Len(ops_run.operations)
    /\ LET r == ApplyOp(ops_run.operations[ops_run.i], ops_run.chars,
                        ops_run.signature)
       IN ops_run' = IF r.kind = "Panic"
                     THEN [ops_run EXCEPT !.pc = "panic"]
                     ELSE [ops_run EXCEPT !.chars = r.val, !.i = @ + 1]
    /\ UNCHANGED <<inst, apply_run, fn_run>>

\* line 158: the loop is over
OpsReturn ==
    /\ ops_run.pc = "loop"
    /\ ops_run.i > Len(ops_run.operations)
    /\ ops_run' = [ops_run EXCEPT !.pc = "done"]
    /\ UNCHANGED <<inst, apply_run, fn_run>>

NextOps == OpsStep \/ OpsReturn

SpecOps == InitOps /\ [][NextOps]_vars

-----------------------------------------------------------------------------
(* Cipher::apply on its own: every cipher on every format *)

QueryKeys == {K_n, <<"itag">>, <<"sig">>}
QueryValues == {<<"x">>, <<"y">>}
QueryPairs == {<<k, v>> : k \in QueryKeys, v \in QueryValues}

\* stream urls: an absolute one with every query of at most MaxPairs pairs,
\* and a relative one
StreamUrls ==
    [base : {<<"https://host/videoplayback">>}, query : SeqsUpTo(QueryPairs, MaxPairs)]
    \cup {[base |-> <<>>, query |-> <<>>]}

\* the pairs of VideoFormat.signature_cipher: s, sp and url, each there or not
Blobs ==
    { s \o sp \o url :
        s \in {<<>>, <<<<K_s, <<"a", "b">>>>>>, <<<<K_s, <<>>>>>>},
        sp \in {<<>>, <<<<K_sp, <<"sig">>>>>>, <<<<K_sp, K_n>>>>},
        url \in {<<>>} \cup {<<<<K_url, u>>>> : u \in StreamUrls} }

\* structs.rs: the fields of VideoFormat that apply reads
Formats ==
    [signature_cipher : {None}, url : {None} \cup {Some(u) : u \in StreamUrls}]
    \cup [signature_cipher : {Some(b) : b \in Blobs}, url : {None}]

\* lines 75-79: what Cipher::new may have extracted
Ciphers ==
    [operations : {None, Some(<<>>), Some(<<[op |-> "Reverse", x |-> 0]>>),
                   Some(<<[op |-> "Slice", x |-> 3]>>)},
     nfunc : {None, Some("transform"), Some("enhanced_except"), Some("throw")},
     timestamp : {None}]

\* line 104: apply(context, format) is entered
InitApply ==
    /\ Quiet
    /\ ops_run = NoRun
    /\ fn_run = NoRun
    /\ \E cipher \in Ciphers, format \in Formats :
          apply_run = [pc |-> "fields", cipher |-> cipher, format |-> format,
                       url |-> None, sp |-> None, s |-> None,
                       queries |-> <<>>, res |-> NoResult]

ApplyEnds(res) == apply_run' = [apply_run EXCEPT !.pc = "done", !.res = res]

\* lines 107-118: url, sp and s of the blob, or the url of the format
ApplyFields ==
    /\ apply_run.pc = "fields"
    /\ LET blob == apply_run.format.signature_cipher
           map == IF blob = None THEN <<>> ELSE Collect(blob[1])
           url == IF blob = None THEN apply_run.format.url ELSE Get(map, K_url)
           r == [apply_run EXCEPT !.url = url,
                                  !.sp = IF blob = None THEN None ELSE Get(map, K_sp),
                                  !.s = IF blob = None THEN None ELSE Get(map, K_s)]
       IN apply_run' = IF url = None
                       THEN [r EXCEPT !.pc = "done", !.res = Err("MissingField")]
                       ELSE [r EXCEPT !.pc = "parse"]
    /\ UNCHANGED <<inst, ops_run, fn_run>>

\* lines 120-121
ApplyParse ==
    /\ apply_run.pc = "parse"
    /\ LET url == Url_parse(apply_run.url[1]) IN
       IF url.kind = "Ok"
       THEN apply_run' = [apply_run EXCEPT !.pc = "n",
                                           !.queries = Collect(url.val.query)]
       ELSE ApplyEnds(url)
    /\ UNCHANGED <<inst, ops_run, fn_run>>

\* lines 123-126
ApplyN ==
    /\ apply_run.pc = "n"
    /\ LET r == n_step(apply_run.cipher, apply_run.queries) IN
       IF r.kind = "Ok"
       THEN apply_run' = [apply_run EXCEPT !.pc = "s", !.queries = r.val]
       ELSE ApplyEnds(r)
    /\ UNCHANGED <<inst, ops_run, fn_run>>

\* lines 128-132
ApplySig ==
    /\ apply_run.pc = "s"
    /\ LET r == sig_step(apply_run.cipher, apply_run.sp, apply_run.s,
                         apply_run.queries)
       IN
       IF r.kind = "Ok"
       THEN apply_run' = [apply_run EXCEPT !.pc = "serialize", !.queries = r.val]
       ELSE ApplyEnds(r)
    /\ UNCHANGED <<inst, ops_run, fn_run>>

\* lines 134-138: the pairs are written in the order the HashMap iterates
ApplyReturn ==
    /\ apply_run.pc = "serialize"
    /\ \E order \in Orders(DOMAIN apply_run.queries) :
          ApplyEnds(Ok([base |-> apply_run.url[1].base,
                        query |-> [i \in 1 .. Len(order) |->
                                      <<order[i], apply_run.queries[order[i]]>>]]))
    /\ UNCHANGED <<inst, ops_run, fn_run>>

NextApply == ApplyFields \/ ApplyParse \/ ApplyN \/ ApplySig \/ ApplyReturn

SpecApply == InitApply /\ [][NextApply]_vars

-----------------------------------------------------------------------------
(* The pure functions on their own: every argument *)

\* the longest of the bare strings
MaxBare == 12

\* chars of a bare string: chars of an id, an alphanumeric char of two
\* bytes, and chars that are neither
BareChars == {"a", "Z", "7", "_", "-", "e'", "!", " "}

\* strings with no "/": up to MaxBare chars, "a" everywhere but at one place;
\* and the strings of the tests (lines 360-381) that are not URLs
BareStrings ==
    { [i \in 1 .. n |-> IF i = p THEN c ELSE "a"] :
          <<n, p, c>> \in { x \in (1 .. MaxBare) \X (1 .. MaxBare) \X BareChars :
                               x[2] <= x[1] } }
    \cup { <<"N", "L", "q", "A", "F", "9", "h", "r", "V", "b", "Y">>,
           <<"N", "L", "q", "A", "F", "9", "h", "r", "V", "b", "Y", "A", "F", "N", "E">>,
           <<"I", "B", "3", "l", "c", "P", "j", "v", "W">>,
           <<"I", "B", "3", "l", "c", "P", "j", "v", "!">> }

\* the most services of a response, and the most params of a service
MaxServices == 2
MaxParams == 2

\* values of a param: a marker alone, a marker in a list, no marker, and a
\* token that has a marker inside it
ParamValues ==
    { <<"51217102">>, <<"42", ",", "51217476">>, <<"42">>, <<"9", "51217102">> }

ServiceParams == SeqsUpTo([key : {"e", "c"}, value : ParamValues], MaxParams)

\* Video.response_context.service_tracking_params
TrackingParams ==
    SeqsUpTo([service : {"GFEEDBACK", "CSI"}, params : ServiceParams], MaxServices)

\* the most calls of a main function, and the most helper definitions
MaxCalls == 2
MaxDefs == 2

\* bodies of a helper: the four shapes, and one that is none of them
HelperBodies == {REVERSE, SLICE, SPLICE, SWAP, <<"a.sort()">>}

RECURSIVE Joined(_, _)
\* the pieces one after the other, sep between them
Joined(pieces, sep) ==
    IF pieces = <<>> THEN <<>>
    ELSE IF Len(pieces) = 1 THEN pieces[1]
    ELSE pieces[1] \o <<sep>> \o Joined(Tail(pieces), sep)

\* a player script: the object of the helpers (var Fo={Bo:function(a,b){...},...};)
\* and the main function (Xy=function(a){a=a.split("");Fo.Bo(a,3);...;return a.join("")})
Script(defs, calls) ==
    <<"var Fo={">>
    \o Joined([k \in 1 .. Len(defs) |->
                  <<defs[k].n, ":function(a,b){">> \o defs[k].body \o <<"}">>], ",")
    \o <<"};", "Xy", MAIN_HEAD>>
    \o Joined([k \in 1 .. Len(calls) |->
                  <<"Fo", ".", calls[k].n, "(", "a", ",", calls[k].a, ")">>], ";")
    \o <<MAIN_TAIL>>

MainScripts ==
    { Script(defs, calls) :
          defs \in SeqsUpTo([n : {"Bo", "Do"}, body : HelperBodies], MaxDefs),
          calls \in SeqsUpTo([n : {"Bo", "Do"}, a : {"1", "3"}], MaxCalls) \ {<<>>} }

FnCall(fn, arg) == [pc |-> "call", fn |-> fn, arg |-> arg, out |-> <<>>]

\* the argument of the call a state follows
InitFns ==
    /\ Quiet
    /\ ops_run = NoRun
    /\ apply_run = NoRun
    /\ \/ \E client_type \in ClientType : fn_run = FnCall("context_json", client_type)
       \/ \E url \in BareStrings \cup InfoInputs : fn_run = FnCall("get_video_id", url)
       \/ \E video \in TrackingParams \cup VideoResponses :
              fn_run = FnCall("video_invalid", video)
       \/ \E js \in MainScripts \cup PlayerScripts :
              fn_run = FnCall("extract_operations", js)

\* clients.rs lines 37-64
ContextJson ==
    /\ fn_run.pc = "call"
    /\ fn_run.fn = "context_json"
    /\ fn_run' = [fn_run EXCEPT !.pc = "done", !.out = context_json(fn_run.arg)]
    /\ UNCHANGED <<inst, ops_run, apply_run>>

\* innertube.rs lines 290-317
GetVideoId ==
    /\ fn_run.pc = "call"
    /\ fn_run.fn = "get_video_id"
    /\ fn_run' = [fn_run EXCEPT !.pc = "done", !.out = get_video_id(fn_run.arg)]
    /\ UNCHANGED <<inst, ops_run, apply_run>>

\* innertube.rs lines 321-341
VideoInvalid ==
    /\ fn_run.pc = "call"
    /\ fn_run.fn = "video_invalid"
    /\ fn_run' = [fn_run EXCEPT !.pc = "done", !.out = video_invalid(fn_run.arg)]
    /\ UNCHANGED <<inst, ops_run, apply_run>>

\* cipher.rs lines 204-240: the call returns, or unwinds from a panic
ExtractOperations ==
    /\ fn_run.pc = "call"
    /\ fn_run.fn = "extract_operations"
    /\ LET r == extract_operations(fn_run.arg) IN
       fn_run' = IF r.kind = "Panic"
                 THEN [fn_run EXCEPT !.pc = "panic"]
                 ELSE [fn_run EXCEPT !.pc = "done", !.out = r.val]
    /\ UNCHANGED <<inst, ops_run, apply_run>>

NextFns == ContextJson \/ GetVideoId \/ VideoInvalid \/ ExtractOperations

SpecFns == InitFns /\ [][NextFns]_vars

-----------------------------------------------------------------------------
(* Properties *)

InfoTasks == {t \in Tasks : task[t].op = "info"}

Attempts == IF retry_limit < 0 THEN 0 ELSE retry_limit + 1

\* C1: whenever info returns Ok(video), video_invalid(video) is false
C1_InfoReturnsOnlyValid ==
    \A t \in InfoTasks :
        task[t].res.kind = "Ok" => ~video_invalid(task[t].res.val)

\* an info call returned Ok on the second attempt of a profile
C1_Witness ==
    \E t \in InfoTasks :
        /\ task[t].res.kind = "Ok"
        /\ task[t].posts[task[t].idx] = 2

\* C2: a profile is POSTed at most retry_limit times after its first attempt,
\* info moves past a profile it POSTed only when these attempts are used up,
\* and a later profile is POSTed only after every earlier one was skipped or
\* exhausted
C2_RetryThenNextProfile ==
    \A t \in InfoTasks :
        LET r == task[t] IN
        /\ \A i \in 1 .. Len(configs) :
              /\ r.posts[i] <= Attempts
              /\ r.fate[i] = "exhausted" => r.posts[i] = Attempts
              /\ r.fate[i] = "skipped" => r.posts[i] = 0
              /\ (r.posts[i] > 0 \/ i < r.idx) =>
                    \A j \in 1 .. i - 1 : r.fate[j] \in {"skipped", "exhausted"}
        /\ r.pc = "post" =>
              /\ r.attempt <= retry_limit
              /\ r.posts[r.idx] = r.attempt + 1

\* the first profile used up its two or more attempts and the second is POSTed
C2_Witness ==
    \E t \in InfoTasks :
        /\ retry_limit >= 1
        /\ task[t].fate[1] = "exhausted"
        /\ task[t].posts[1] = retry_limit + 1
        /\ task[t].pc = "post"
        /\ task[t].idx = 2

AllFated(t) ==
    \A i \in 1 .. Len(configs) : task[t].fate[i] \in {"skipped", "exhausted"}

\* C3: an info call that got past the video id returns Err(VideoInfo) exactly
\* when every configured profile was skipped or used up its attempts; while a
\* profile is untried or being tried it has not returned VideoInfo, and it
\* never returns Ok with all profiles exhausted
C3_VideoInfoIffExhausted ==
    \A t \in InfoTasks :
        LET r == task[t] IN
        /\ r.res = Err("VideoInfo") => r.pc = "done" /\ AllFated(t)
        /\ (AllFated(t) /\ r.res # Err("NotYoutubeUrl")) => r.res = Err("VideoInfo")
        /\ r.res.kind = "Ok" => ~AllFated(t)

\* VideoInfo after one profile used up its attempts and the other was skipped
C3_Witness ==
    \E t \in InfoTasks :
        /\ task[t].res = Err("VideoInfo")
        /\ Len(configs) = 2
        /\ \E i, j \in 1 .. 2 :
              task[t].fate[i] = "exhausted" /\ task[t].posts[i] >= 2
              /\ task[t].fate[j] = "skipped"

Fetching == {t \in Tasks : task[t].pc = "gpu_fetch"}

\* C5: a GET of the embed page is in flight only for the one task that holds
\* the lock, and only while the stored url is expired: callers wait for it, and
\* until the expiry a completed fetch set no caller fetches
C5_OneEmbedFetch ==
    /\ Cardinality(Fetching) <= 1
    /\ \A t \in Fetching : lock = t /\ player_url.expire_at <= now
    /\ lock # 0 => lock \in Fetching

\* one caller's fetch is in flight and another caller waits for the lock
C5_Witness ==
    \E t, u \in Tasks : task[t].pc = "gpu_fetch" /\ task[u].pc = "gpu_lock"

Loading(k) == {t \in Tasks : task[t].pc = "gcp_fetch" /\ task[t].key = k}

\* C6: for each player url at most one loader is in flight, and only while the
\* url has no entry; at most one loader ever completes for it, and every holder
\* of a Ref reads the Cipher that loader made
C6_OneLoaderPerUrl ==
    /\ \A k \in PlayerUrls :
          /\ Cardinality(Loading(k)) <= 1
          /\ Loading(k) # {} => loads[k] = <<>> /\ cipher_cache[k] = None
          /\ Len(loads[k]) <= 1
    /\ \A t \in Tasks :
          task[t].pc = "df_js" =>
              /\ loads[task[t].key] # <<>>
              /\ cipher_cache[task[t].key] = Some(Cipher_new(loads[task[t].key][1]))

\* a caller waits in entry() for the url another caller is loading
C6_Witness ==
    \E t, u \in Tasks :
        /\ task[t].pc = "gcp_fetch"
        /\ task[u].pc = "gcp_entry"
        /\ task[u].key = task[t].key

\* the call goes on from get_player_url with url: record r before, q after
Proceeds(r, q, url) ==
    /\ q.pc \in {"gcp_entry", "gcp_fetch", "df_js"} => q.key = url
    /\ (r.op = "info" /\ url = <<>>) => q.fate[r.idx] = "skipped"

\* C7: a completed fetch stores the extracted url, empty or not, with the
\* expiry 24 hours from then; a caller that gets the lock before the expiry
\* goes on with the stored url and sends no GET, one that gets it at or after
\* the expiry sends the GET
C7_Step ==
    \A t \in Tasks :
        LET r == task[t]
            q == task'[t]
        IN
        /\ (r.pc = "gpu_lock" /\ q.pc # "gpu_lock" /\ q.res # Cancelled) =>
              /\ player_url' = player_url
              /\ IF player_url.expire_at <= now
                 THEN q.pc = "gpu_fetch"
                 ELSE q.pc # "gpu_fetch" /\ Proceeds(r, q, player_url.url)
        /\ (r.pc = "gpu_fetch" /\ q.pc # "gpu_fetch" /\ q.res # Cancelled
               /\ q.failed # "embed") =>
              /\ player_url'.expire_at = now + TTL
              /\ \E res \in EmbedBodies : player_url'.url = ExtractPlayerUrl(res)
              /\ Proceeds(r, q, player_url'.url)

C7_PlayerUrlKeptUntilExpiry == [][C7_Step]_vars

\* a url was stored, its expiry came, and a caller fetches again
C7_Witness ==
    /\ player_url.url # <<>>
    /\ player_url.expire_at = now
    /\ \E t \in Tasks : task[t].pc = "gpu_fetch"

\* C8: when the fetch of the embed page ends in a transport error or the call
\* is cancelled during it, url and expire_at are both as before, the lock is
\* free and the handle is still expired, so the next caller fetches
C8_Step ==
    \A t \in Tasks :
        (task[t].pc = "gpu_fetch"
            /\ (task'[t].failed = "embed" \/ task'[t].res = Cancelled)) =>
            /\ player_url' = player_url
            /\ lock' = 0
            /\ player_url'.expire_at <= now

C8_FailedFetchLeavesHandle == [][C8_Step]_vars

\* a fetch failed in transport and the next caller's fetch is in flight
C8_Witness ==
    \E t, u \in Tasks : task[t].failed = "embed" /\ task[u].pc = "gpu_fetch"

\* C9: an entry of the cache is the Cipher of a script whose fetch and parse
\* completed; a url whose loader is in flight, failed or was cancelled has no
\* entry, and a Ref is held only to an entry
C9_OnlyCompleteEntries ==
    /\ \A k \in PlayerUrls :
          /\ cipher_cache[k] =
                IF loads[k] = <<>> THEN None
                ELSE Some(Cipher_new(loads[k][Len(loads[k])]))
          /\ Loading(k) # {} => cipher_cache[k] = None
    /\ \A t \in Tasks :
          task[t].pc = "df_js" => cipher_cache[task[t].key] # None

\* a loader failed in transport and the cache has no entry
C9_Witness ==
    /\ \E t \in Tasks : task[t].failed = "script" /\ task[t].op = "info"
    /\ \A k \in PlayerUrls : cipher_cache[k] = None

Holds(u, s) == shardW[s] = u \/ u \in shardR[s]

\* C10: a call of get_cipher_pair is never kept waiting by the loader or the
\* Ref of a different url
C10_OtherUrlNeverBlocks ==
    \A t, u \in Tasks :
        (task[t].pc = "gcp_entry" /\ task[u].key # task[t].key) =>
            ~Holds(u, shardOf[task[t].key])


\* C11: an entry of the cache is never removed or replaced: from the insert on
\* the key keeps that Cipher, and no GET of its script is sent or in flight,
\* whatever info, decipher_format and the refreshes of the player url do
C11_Step ==
    \A k \in PlayerUrls :
        cipher_cache[k] # None =>
            /\ cipher_cache'[k] = cipher_cache[k]
            /\ loads'[k] = loads[k]
            /\ \A t \in Tasks :
                  ~(task'[t].pc = "gcp_fetch" /\ task'[t].key = k)

C11_EntriesKept == [][C11_Step]_vars

\* two calls of decipher_format got a Ref and one script was ever loaded: the
\* later call found the entry there
C11_Witness ==
    \E t, u \in Tasks :
        /\ task[t].op = "decipher"
        /\ task[t].pc = "done"
        /\ task[t].res \in {Ok(<<>>), Err("Cipher")}
        /\ task[u].pc = "df_js"
        /\ \A k \in PlayerUrls :
              Len(loads[k]) = IF k = task[u].key THEN 1 ELSE 0


\* C14: Swap(k), applied to a sequence of one char or more at any position of
\* a program, exchanges index 0 with index k mod the number of chars of that
\* sequence, and does not fail
C14_SwapStep ==
    LET r == ops_run IN
    (/\ r.pc = "loop"
     /\ r.i <= Len(r.operations)
     /\ r.operations[r.i].op = "Swap"
     /\ Len(r.chars) >= 1) =>
        /\ ops_run'.pc = "loop"
        /\ ops_run'.chars = Swapped(r.chars, r.operations[r.i].x % Len(r.chars))

C14_SwapModCurrentLength == [][C14_SwapStep]_vars

\* C15: for 0 <= k <= |s|, a program of the one operation Slice(k) returns
\* s[k..], and so does the program of the one operation Splice(k)
C15_SliceAndSplice ==
    LET r == ops_run IN
    (/\ r.pc # "none"
     /\ Len(r.operations) = 1
     /\ r.operations[1].op \in {"Slice", "Splice"}
     /\ r.operations[1].x <= Len(r.signature)) =>
        LET k == r.operations[1].x
            rest == SubSeq(r.signature, k + 1, Len(r.signature))
        IN
        /\ r.pc # "panic"
        /\ r.pc = "done" => r.chars = rest
        /\ RunOps(<<[op |-> "Slice", x |-> k]>>, 1, r.signature, r.signature)
              = Ok(rest)
        /\ RunOps(<<[op |-> "Splice", x |-> k]>>, 1, r.signature, r.signature)
              = Ok(rest)

\* Splice(2) returned the last char of a signature of three chars, the first
\* of them two bytes long
C15_Witness ==
    /\ ops_run.pc = "done"
    /\ ops_run.operations = <<[op |-> "Splice", x |-> 2]>>
    /\ ops_run.signature = <<"e'", "a", "b">>
    /\ ops_run.chars = <<"b">>

RECURSIVE SumArgs(_)
\* the sum of the arguments of the Slice and Splice operations of a program
SumArgs(operations) ==
    IF operations = <<>> THEN 0
    ELSE (IF Head(operations).op \in {"Slice", "Splice"} THEN Head(operations).x ELSE 0)
         + SumArgs(Tail(operations))

\* C16: apply_operations returns a value for every program and signature, of
\* the length of the signature minus the arguments of its Slice and Splice
\* operations
C16_LengthAfterProgram ==
    /\ ops_run.pc # "panic"
    /\ ops_run.pc = "done" =>
          Len(ops_run.chars) = Len(ops_run.signature) - SumArgs(ops_run.operations)


\* the url of the run was there and parsed: the run got to the n parameter
Parsed == apply_run.pc = "done" /\ apply_run.url # None
          /\ Url_parse(apply_run.url[1]).kind = "Ok"

\* the query pairs of the url of the format, and the map collected from them
OriginalPairs == apply_run.url[1].query
Original == Collect(OriginalPairs)

\* the name the signature goes under
SpName == IF apply_run.sp = None THEN K_signature ELSE apply_run.sp[1]

\* how many times a pair is in a query
Count(pairs, pair) == Cardinality({i \in 1 .. Len(pairs) : pairs[i] = pair})

\* C12: when the url has an n parameter and the n-transform fails, apply still
\* returns Ok, with the n parameter as it was and the signature applied
C12_NFailureNotPropagated ==
    (/\ Parsed
     /\ K_n \in DOMAIN Original
     /\ apply_nfunc(apply_run.cipher, Original[K_n]).kind # "Ok"
     /\ SpName # K_n
     /\ sig_step(apply_run.cipher, apply_run.sp, apply_run.s, Original).kind = "Ok") =>
        /\ apply_run.res.kind = "Ok"
        /\ Count(apply_run.res.val.query, <<K_n, Original[K_n]>>) = 1
        /\ apply_run.s # None =>
              Count(apply_run.res.val.query,
                    <<SpName, apply_operations(apply_run.cipher, apply_run.s[1]).val>>) = 1

\* C13: the url apply returns has every pair of the original url whose key is
\* neither n nor the name of the signature parameter, as many times as the
\* original has it, and no key that is neither in the original nor that name
C13_OtherPairsKept ==
    (Parsed /\ apply_run.res.kind = "Ok") =>
        LET out == apply_run.res.val.query IN
        /\ \A i \in 1 .. Len(OriginalPairs) :
              OriginalPairs[i][1] \notin {K_n, SpName} =>
                  Count(out, OriginalPairs[i]) = Count(OriginalPairs, OriginalPairs[i])
        /\ \A i \in 1 .. Len(out) :
              out[i][1] \in DOMAIN Original \cup {SpName}

NThenSig(cipher, sp, s, queries) ==
    LET a == n_step(cipher, queries) IN
    IF a.kind = "Ok" THEN sig_step(cipher, sp, s, a.val) ELSE a

SigThenN(cipher, sp, s, queries) ==
    LET a == sig_step(cipher, sp, s, queries) IN
    IF a.kind = "Ok" THEN n_step(cipher, a.val) ELSE a

\* both fail, or both give the same query parameters
SameQueries(a, b) ==
    /\ (a.kind = "Ok") = (b.kind = "Ok")
    /\ a.kind = "Ok" => a.val = b.val

\* C18 as stated: for every format the n-transform and the signature
\* insertion give the same query parameters in either order
C18_EitherOrderEveryFormat ==
    Parsed =>
        SameQueries(NThenSig(apply_run.cipher, apply_run.sp, apply_run.s, Original),
                    SigThenN(apply_run.cipher, apply_run.sp, apply_run.s, Original))

\* C18: for every format whose signature parameter is not named n the
\* n-transform and the signature insertion give the same query parameters in
\* either order, and they are the ones apply returns
C18_EitherOrderUnlessSpIsN ==
    (Parsed /\ (apply_run.s = None
                \/ (IF apply_run.sp = None THEN K_signature ELSE apply_run.sp[1]) # K_n)) =>
        LET a == NThenSig(apply_run.cipher, apply_run.sp, apply_run.s, Original)
            b == SigThenN(apply_run.cipher, apply_run.sp, apply_run.s, Original)
        IN
        /\ SameQueries(a, b)
        /\ (apply_run.res.kind = "Ok") = (b.kind = "Ok")
        /\ apply_run.res.kind = "Ok" => Collect(apply_run.res.val.query) = b.val

\* a url with an n parameter and a blob with s and sp=sig: both steps wrote
C18_Witness ==
    /\ Parsed
    /\ apply_run.res.kind = "Ok"
    /\ apply_run.s = Some(<<"a", "b">>)
    /\ apply_run.sp = Some(<<"sig">>)
    /\ K_n \in DOMAIN Original
    /\ Count(apply_run.res.val.query, <<K_n, <<"T">> \o Original[K_n]>>) = 1
    /\ Count(apply_run.res.val.query, <<<<"sig">>, <<"b", "a">>>>) = 1


InLookup == {"gpu_lock", "gpu_fetch", "gcp_entry", "gcp_fetch"}

\* the url an info call at r goes on with when its lookup ends in this step
LookupUrl(r) == IF r.pc \in {"gcp_entry", "gcp_fetch"} THEN r.key ELSE player_url'.url

\* C19: info POSTs a profile that requires the player only with a player url
\* that is not empty and a cached Cipher of that url that has a timestamp, and
\* every POST of the profile carries that timestamp; with an empty url or no
\* timestamp the profile is skipped without a POST and info goes on to the
\* next; a profile that does not require the player carries no timestamp
C19_Step ==
    \A t \in Tasks :
        LET r == task[t]
            q == task'[t]
        IN
        /\ (q.op = "info" /\ q.pc = "post") =>
              IF ~requires_player(configs[q.idx]) THEN q.sts = None
              ELSE /\ q.sts # None
                   /\ IF r.pc = "post" /\ r.idx = q.idx THEN q.sts = r.sts
                      ELSE /\ LookupUrl(r) # <<>>
                           /\ cipher_cache'[LookupUrl(r)] # None
                           /\ q.sts = cipher_cache'[LookupUrl(r)][1].timestamp
        /\ (/\ r.op = "info"
            /\ r.pc \in InLookup
            /\ q.pc \notin InLookup
            /\ q.res # Cancelled
            /\ q.failed = "none"
            /\ \/ LookupUrl(r) = <<>>
               \/ cipher_cache'[LookupUrl(r)] = None
               \/ cipher_cache'[LookupUrl(r)][1].timestamp = None) =>
              /\ q.fate[r.idx] = "skipped"
              /\ q.posts[r.idx] = 0
              /\ q.idx > r.idx

C19_PostOnlyWithTimestamp == [][C19_Step]_vars

\* a profile that requires the player is POSTed a second time, with the timestamp
C19_Witness ==
    \E t \in InfoTasks :
        /\ task[t].pc = "post"
        /\ requires_player(configs[task[t].idx])
        /\ task[t].posts[task[t].idx] = 2
        /\ task[t].sts \in {cipher_cache[k][1].timestamp :
                               k \in {u \in PlayerUrls : cipher_cache[u] # None}}

\* C20: within an info call, for a profile that requires the player,
\* get_cipher_pair is entered only when get_player_url has returned (the lock
\* released, with the url it returned), the first POST is sent only when
\* get_cipher_pair has returned (the Ref dropped), and no POST of the profile
\* is sent before
C20_Step ==
    \A t \in Tasks :
        LET r == task[t]
            q == task'[t]
        IN
        q.op = "info" =>
            /\ (q.pc \in {"gcp_entry", "gcp_fetch"} /\ r.pc \notin {"gcp_entry", "gcp_fetch"}) =>
                  /\ r.pc \in {"gpu_lock", "gpu_fetch"}
                  /\ r.idx = q.idx
                  /\ lock' # t
                  /\ q.key = player_url'.url
            /\ (q.pc = "post" /\ requires_player(configs[q.idx])
                   /\ ~(r.pc = "post" /\ r.idx = q.idx)) =>
                  /\ r.pc \in InLookup
                  /\ r.idx = q.idx
                  /\ lock' # t
                  /\ \A s \in Shards : shardW'[s] # t /\ t \notin shardR'[s]
                  /\ cipher_cache'[LookupUrl(r)] # None
                  /\ r.posts[r.idx] = 0
                  /\ q.posts[q.idx] = 1
            /\ q.pc \in InLookup => q.posts[q.idx] = 0

C20_LookupBeforePost == [][C20_Step]_vars

\* the first POST of a profile that requires the player is out, the script of
\* the current player url loaded
C20_Witness ==
    \E t \in InfoTasks :
        /\ task[t].pc = "post"
        /\ requires_player(configs[task[t].idx])
        /\ task[t].posts[task[t].idx] = 1
        /\ player_url.url # <<>>
        /\ loads[player_url.url] # <<>>

\* C21: for each of the nine profiles the context has client.clientScreen =
\* "EMBED" exactly when is_base holds, and has a thirdParty object exactly
\* when the profile is base or embedded (a Creator profile has none)
C21_ScreenAndThirdParty ==
    (fn_run.pc = "done" /\ fn_run.fn = "context_json") =>
        LET client_type == fn_run.arg
            client == fn_run.out["client"]
            embedded == client_type \in {"WebEmbedded", "AndroidEmbedded", "IosEmbedded"}
        IN /\ ("clientScreen" \in DOMAIN client /\ client["clientScreen"] = "EMBED")
                  <=> is_base(client_type)
           /\ "thirdParty" \in DOMAIN fn_run.out
                  <=> (is_base(client_type) \/ embedded)
\* a string with no "/" in it
Bare(url) == \A i \in 1 .. Len(url) : url[i] # "/"

\* C22: get_video_id returns Some(s) for every bare string s of exactly 11
\* chars all of [A-Za-z0-9_-], and None for every bare string that is
\* shorter, longer, or has a char outside that set (a non-ASCII letter too)
C22_BareIdRecognised ==
    (fn_run.pc = "done" /\ fn_run.fn = "get_video_id" /\ Bare(fn_run.arg)) =>
        IF Len(fn_run.arg) = 11
           /\ \A i \in 1 .. 11 : fn_run.arg[i] \in AsciiAlnum \cup {"_", "-"}
        THEN fn_run.out = Some(fn_run.arg)
        ELSE fn_run.out = None
\* the comma-separated list has one of the two markers as a whole token
HasMarker(value) ==
    \E k \in 1 .. Len(split(value, ",")) :
        split(value, ",")[k] \in { <<"51217102">>, <<"51217476">> }

\* C23: video_invalid is true exactly when some service named GFEEDBACK has
\* some param keyed "e" whose comma-separated list contains a marker,
\* wherever that service and that param are in their lists; a token that only
\* contains a marker does not count
C23_InvalidIffSomeMarker ==
    (fn_run.pc = "done" /\ fn_run.fn = "video_invalid") =>
        (fn_run.out <=>
            \E i \in 1 .. Len(fn_run.arg) :
                /\ fn_run.arg[i].service = "GFEEDBACK"
                /\ \E j \in 1 .. Len(fn_run.arg[i].params) :
                       /\ fn_run.arg[i].params[j].key = "e"
                       /\ HasMarker(fn_run.arg[i].params[j].value))
\* the calls of the main function of a script, and the helpers it defines
MainCalls(js) == CallsOf(MainBody(js, find_main(js)[1])[1])
MainDefs(js) == HelperDefs(js, MainCalls(js))

\* the call has a helper that is defined and of one of the four shapes
Classified(js, k) ==
    /\ MainCalls(js)[k].n \in DOMAIN MainDefs(js)
    /\ Operation_new(MainDefs(js)[MainCalls(js)[k].n], MainCalls(js)[k].a).kind = "Ok"

\* C24: for a main function of m calls extract_operations returns None or a
\* list of exactly m ops in the order of the calls, each classified from the
\* body of its helper with the argument of the call; when one call has a helper
\* with no definition or of none of the four shapes it returns None: it never
\* returns a shorter list and never aborts
C24_AllOrNothing ==
    (/\ fn_run.pc \in {"done", "panic"}
     /\ fn_run.fn = "extract_operations"
     /\ find_main(fn_run.arg) # None
     /\ MainBody(fn_run.arg, find_main(fn_run.arg)[1]) # None) =>
        /\ fn_run.pc = "done"
        /\ IF \A k \in 1 .. Len(MainCalls(fn_run.arg)) : Classified(fn_run.arg, k)
           THEN fn_run.out =
                  Some([k \in 1 .. Len(MainCalls(fn_run.arg)) |->
                          Operation_new(MainDefs(fn_run.arg)[MainCalls(fn_run.arg)[k].n],
                                        MainCalls(fn_run.arg)[k].a).val])
           ELSE fn_run.out = None
\* the task is in an iteration of info for an Android or Ios profile
NoPlayerTurn(r) ==
    /\ r.op = "info"
    /\ r.pc \notin {"idle", "done"}
    /\ r.idx \in 1 .. Len(configs)
    /\ configs[r.idx] \in {"Android", "AndroidEmbedded", "AndroidCreator",
                           "Ios", "IosEmbedded", "IosCreator"}

\* C25: an iteration of info for a profile whose requires_player is false
\* (every Android and Ios profile) fetches neither the embed page nor a player
\* script and does not touch the cipher cache: it is only ever at its POST,
\* which has no playbackContext, and its steps leave the player handle, its
\* lock and the cache as they are; requires_player is true exactly for Web,
\* WebEmbedded and WebCreator
C25_Step ==
    /\ \A c \in ClientType :
           requires_player(c) <=> c \in {"Web", "WebEmbedded", "WebCreator"}
    /\ \A t \in Tasks :
        LET r == task[t]
            q == task'[t]
        IN /\ NoPlayerTurn(q) => (q.pc = "post" /\ q.sts = None)
           \* its steps: from its POST, and into it from the start of info (a
           \* step into it from the profile before ends that profile's turn)
           /\ (r # q /\ (NoPlayerTurn(r) \/ (r.pc = "idle" /\ NoPlayerTurn(q)))) =>
                 UNCHANGED <<player_url, lock, cipher_cache, loads, shardW, shardR>>

C25_NoPlayerProfiles == [][C25_Step]_vars

\* an Ios profile was POSTed and answered after a Web profile had loaded a
\* Cipher into the cache
C25_Witness ==
    \E t \in Tasks :
        /\ task[t].op = "info"
        /\ task[t].pc = "done"
        /\ task[t].res.kind = "Ok"
        /\ task[t].idx = 2
        /\ configs = <<"Web", "Ios">>
        /\ task[t].fate[1] = "exhausted"
        /\ task[t].posts[2] = 1
        /\ \E k \in PlayerUrls : cipher_cache[k] # None
RECURSIVE PostsUpTo(_, _)
\* the POSTs of a call to the profiles 1 .. i
PostsUpTo(r, i) == IF i = 0 THEN 0 ELSE r.posts[i] + PostsUpTo(r, i - 1)

\* the POSTs a call has sent are within |configs| x (retry_limit + 1), and
\* none was sent with no profile or a negative retry_limit
C26_PostsBounded ==
    \A t \in InfoTasks :
        /\ task[t].res.kind \in {"none", "Ok", "Err", "Cancelled"}
        /\ IF Len(configs) = 0 \/ retry_limit < 0
           THEN PostsUpTo(task[t], MaxConfigs) = 0
           ELSE PostsUpTo(task[t], MaxConfigs) <= Len(configs) * (retry_limit + 1)

\* every info call that is not dropped by its caller comes to its end
C26_Returns ==
    \A t \in Tasks :
        (task[t].op = "info" /\ task[t].pc \notin {"idle", "done"})
            ~> (task[t].pc = "done")

SomeCallGoesOn ==
    \E u \in Tasks :
        ENABLED (\/ LockAcquire(u) \/ EmbedFetchDone(u) \/ EntryUnblock(u)
                 \/ ScriptFetchDone(u) \/ PostDone(u) \/ JsDone(u))

\* C27: with info and decipher_format calls interleaved as cooperative tasks
\* no reachable state is a deadlock: while a task waits for the cache or for
\* the lock of the player handle some call can go on (the task suspended in
\* the script fetch with the vacant entry, or in the engine with a reference
\* to a Cipher, can be resumed), and when every HTTP and engine call returns
\* every call returns
C27_NoDeadlock ==
    /\ [](\A t \in Tasks : task[t].pc \in {"gcp_entry", "gpu_lock"} => SomeCallGoesOn)
    /\ \A t \in Tasks : (task[t].pc \notin {"idle", "done"}) ~> (task[t].pc = "done")
====
